---- MODULE Spec2Model ----
(***************************************************************************)
(* Model of penumbra's storage2 crate: the Transaction read-your-own-      *)
(* writes overlay (storage2/src/state/transaction.rs) and the Snapshot     *)
(* read view over RocksDB (storage2/src/snapshot.rs).                      *)
(*                                                                         *)
(* Keys are byte strings, modelled as sequences of small integers; a       *)
(* String key and a Vec<u8> key with the same bytes are the same sequence. *)
(* A BTreeMap is a function whose DOMAIN is the set of keys it holds.      *)
(* Option<Vec<u8>> is either a value or None.                              *)
(***************************************************************************)
EXTENDS Integers, Sequences, FiniteSets, TLC

VARIABLES
    state,        \* the base State: its two uncommitted-change buffers
    stateView,    \* the pinned store view behind the base State's snapshot
    tx,           \* the Transaction (at most one: it holds &mut State)
    commitResult, \* what the last Transaction::commit returned
    stateAtNew,   \* history: the base State's buffers at Transaction::new
    lastOp,       \* history: last put_raw/delete per key in this Transaction
    lastOpNc,     \* history: last put/delete_nonconsensus per key
    lastFail,     \* history: reason of the most recent fail call
    opLog,        \* history: the put_raw/delete calls of this Transaction, in program order
    logging,      \* whether opLog is being recorded (it bounds the Transaction's length)
    txPrefix,     \* the call stack of a Transaction::prefix_raw call
    dbHistory,    \* the physical store: dbHistory[n] is its content at sequence number n
    jmtVersion,   \* the latest version written to the physical store
    inners,       \* the Inner values allocated so far (Arc<Inner>), by id
    handles,      \* the live Snapshot handles: each is the id of the Inner it shares
    created,      \* history: per Inner, the store content and version at Snapshot::new
    scan,         \* the prefix_raw call in progress: its prefix and the Inner it cloned
    producer,     \* the spawn_blocking task of prefix_raw: position, iterator, outcome
    channel,      \* the elements sent on the mpsc channel and not yet received
    consumer,     \* the caller's end of the stream: position and elements received
    leaf          \* what the last get_rightmost_leaf call returned, and on which Inner

txVars == <<state, stateView, tx, commitResult, stateAtNew, lastOp, lastOpNc,
            lastFail, opLog, logging, txPrefix>>

snapVars == <<dbHistory, jmtVersion, inners, handles, created>>

scanVars == <<scan, producer, channel, consumer>>

leafVars == <<leaf>>

outsideTx == <<snapVars, scanVars, leafVars>>

vars == <<txVars, snapVars, scanVars, leafVars>>

----------------------------------------------------------------------------
(* Values and keys *)

None == "None"

Values == {"x", "y"}

OptValues == Values \cup {None}

\* String keys staged through a Transaction
TxKeys == {<<1, 1>>, <<2>>}

\* Byte keys of the non-consensus keyspace; <<2>> has the bytes of a string key
NcKeys == {<<2>>, <<9>>}

Reasons == {"R1", "R2"}

\* BTreeMap::new()
EmptyMap == [k \in {} |-> None]

\* the or_insert slip: keeps an existing entry
InsertIfVacant(map, key, value) ==
    [k \in DOMAIN map \cup {key} |-> IF k \in DOMAIN map THEN map[k] ELSE value]

\* BTreeMap::insert(key, value): one slot per key, the new entry replaces it
Insert(map, key, value) ==
    [k \in DOMAIN map \cup {key} |-> IF k = key THEN value ELSE map[k]]

\* a merge that keeps the base's entry on collision
ExtendKeepBase(base, other) ==
    [k \in DOMAIN base \cup DOMAIN other |->
        IF k \in DOMAIN base THEN base[k] ELSE other[k]]

\* BTreeMap::extend(other): every entry of other is inserted into base
Extend(base, other) ==
    [k \in DOMAIN base \cup DOMAIN other |->
        IF k \in DOMAIN other THEN other[k] ELSE base[k]]

\* The key hash under which the authenticated area stores a key: injective,
\* and it does not keep the lexicographic order of the keys
KeyHash(key) == <<200>> \o [i \in 1..Len(key) |-> key[Len(key) + 1 - i]]

\* A physical store with no entry in any of its three column families
EmptyStore == [jmt |-> EmptyMap, jmt_keys |-> EmptyMap, nonconsensus |-> EmptyMap]

\* RocksDbSnapshot::get_cf on one column family of a pinned view
GetCf(cf, key) == IF key \in DOMAIN cf THEN cf[key] ELSE None

\* State::get_raw: the State's own buffer first, then its snapshot
StateGetRaw(st, view, key) ==
    IF key \in DOMAIN st.unwritten_changes
    THEN st.unwritten_changes[key]
    ELSE GetCf(view.jmt, key)

\* State::get_nonconsensus
StateGetNonconsensus(st, view, key) ==
    IF key \in DOMAIN st.nonconsensus_changes
    THEN st.nonconsensus_changes[key]
    ELSE GetCf(view.nonconsensus, key)

----------------------------------------------------------------------------
(* Transaction *)

\* a read that asks the base first
TxGetRawBaseFirst(t, st, view, key) ==
    IF StateGetRaw(st, view, key) # None
    THEN StateGetRaw(st, view, key)
    ELSE GetCf(t.unwritten_changes, key)

\* Transaction::get_raw
TxGetRaw(t, st, view, key) ==
    IF key \in DOMAIN t.unwritten_changes
    THEN t.unwritten_changes[key]
    ELSE StateGetRaw(st, view, key)

\* a read that treats a tombstone as "keep searching"
TxGetNonconsensusSkipTombstone(t, st, view, key) ==
    IF key \in DOMAIN t.nonconsensus_changes /\ t.nonconsensus_changes[key] # None
    THEN t.nonconsensus_changes[key]
    ELSE StateGetNonconsensus(st, view, key)

\* Transaction::get_nonconsensus
TxGetNonconsensus(t, st, view, key) ==
    IF key \in DOMAIN t.nonconsensus_changes
    THEN t.nonconsensus_changes[key]
    ELSE StateGetNonconsensus(st, view, key)

NoTx == [status |-> "none",
         unwritten_changes |-> EmptyMap,
         nonconsensus_changes |-> EmptyMap,
         failed |-> FALSE,
         failure_reason |-> ""]

NoOps == [k \in TxKeys |-> "none"]
NoOpsNc == [k \in NcKeys |-> "none"]
NoCall == [pc |-> "idle", prefix |-> <<>>, depth |-> 0,
           result |-> [returned |-> FALSE, items |-> <<>>]]
NoResult == [ok |-> FALSE, error |-> "none", context |-> "none"]

\* Longest recorded sequence of writes in one Transaction
MaxOps == 3

\* record one write in the program-order log
Logged(op) ==
    /\ logging => Len(opLog) < MaxOps
    /\ opLog' = IF logging THEN Append(opLog, op) ELSE opLog
    /\ UNCHANGED logging

\* Pinned views the base State's snapshot may hold
StateViews ==
    { [jmt |-> (<<2>> :> "x") @@ (KeyHash(<<1, 1>>) :> "y"),
       jmt_keys |-> (<<1, 1>> :> KeyHash(<<1, 1>>)),
       nonconsensus |-> (<<2>> :> "y")],
      [jmt |-> (<<2>> :> "y") @@ (<<1, 1>> :> "x") @@ (KeyHash(<<2>>) :> "x"),
       jmt_keys |-> (<<2>> :> KeyHash(<<2>>)),
       nonconsensus |-> (<<9>> :> "x")] }

TxInit ==
    /\ state = [unwritten_changes |-> EmptyMap, nonconsensus_changes |-> EmptyMap]
    /\ stateView \in StateViews
    /\ tx = NoTx
    /\ commitResult = NoResult
    /\ stateAtNew = state
    /\ opLog = <<>>
    /\ logging = FALSE
    /\ lastOp = NoOps
    /\ lastOpNc = NoOpsNc
    /\ lastFail = "none"
    /\ txPrefix = NoCall

\* no Snapshot exists and the physical store is empty
SnapRest ==
    /\ dbHistory = <<EmptyStore>>
    /\ jmtVersion = 0
    /\ inners = <<>>
    /\ handles = <<>>
    /\ created = <<>>

\* the producer holds no element
NoItem == [ok |-> FALSE, key |-> <<>>, value |-> None]

\* no prefix scan was started
ScanRest ==
    /\ scan = [started |-> FALSE, prefix |-> <<>>, inner |-> 0]
    /\ producer = [pc |-> "none", seeked |-> FALSE, cursor |-> <<>>, item |-> NoItem,
                   error |-> "none", sent |-> 0, history |-> <<>>]
    /\ channel = <<>>
    /\ consumer = [pc |-> "none", received |-> <<>>]

\* get_rightmost_leaf has not been called
NoNodeKey == [ok |-> FALSE, version |-> 0, nibbles |-> 0, path |-> <<>>]

NoNode == [ok |-> FALSE, kind |-> "none", payload |-> 0]

NoLeaf == [called |-> FALSE, inner |-> 0, ok |-> FALSE, some |-> FALSE,
           key |-> NoNodeKey, node |-> NoNode]

LeafRest == leaf = NoLeaf

Open == tx.status = "open" /\ txPrefix.pc = "idle"

\* Transaction::new: needs &mut State, so no other Transaction exists
New ==
    /\ tx.status # "open"
    /\ tx' = [NoTx EXCEPT !.status = "open"]
    /\ stateAtNew' = state
    /\ lastOp' = NoOps
    /\ lastOpNc' = NoOpsNc
    /\ lastFail' = "none"
    /\ commitResult' = NoResult
    /\ opLog' = <<>>
    /\ UNCHANGED <<state, stateView, logging, txPrefix, outsideTx>>

\* a fail that keeps the reason of the first call
FailOnce(reason) ==
    /\ Open
    /\ tx' = [tx EXCEPT !.failed = TRUE,
                        !.failure_reason = IF tx.failed THEN @ ELSE reason]
    /\ lastFail' = reason
    /\ UNCHANGED <<state, stateView, commitResult, stateAtNew, lastOp, lastOpNc, opLog, logging, txPrefix, outsideTx>>

\* Transaction::fail
Fail(reason) ==
    /\ Open
    /\ tx' = [tx EXCEPT !.failed = TRUE, !.failure_reason = reason]
    /\ lastFail' = reason
    /\ UNCHANGED <<state, stateView, commitResult, stateAtNew, lastOp, lastOpNc, opLog, logging, txPrefix, outsideTx>>

\* a commit that forgets to look at the failed flag
CommitIgnoringFailed ==
    /\ Open
    /\ state' = [unwritten_changes |->
                     Extend(state.unwritten_changes, tx.unwritten_changes),
                 nonconsensus_changes |->
                     Extend(state.nonconsensus_changes, tx.nonconsensus_changes)]
    /\ commitResult' = [ok |-> TRUE, error |-> "none", context |-> "none"]
    /\ tx' = [NoTx EXCEPT !.status = "committed"]
    /\ UNCHANGED <<stateView, stateAtNew, lastOp, lastOpNc, lastFail, opLog, logging, txPrefix, outsideTx>>

\* Transaction::commit (consumes the Transaction)
Commit ==
    /\ Open
    /\ IF tx.failed
       THEN /\ commitResult' = [ok |-> FALSE, error |-> "transaction failed",
                                context |-> tx.failure_reason]
            /\ tx' = [NoTx EXCEPT !.status = "refused"]
            /\ UNCHANGED state
       ELSE /\ state' = [unwritten_changes |->
                             Extend(state.unwritten_changes, tx.unwritten_changes),
                         nonconsensus_changes |->
                             Extend(state.nonconsensus_changes, tx.nonconsensus_changes)]
            /\ commitResult' = [ok |-> TRUE, error |-> "none", context |-> "none"]
            /\ tx' = [NoTx EXCEPT !.status = "committed"]
    /\ UNCHANGED <<stateView, stateAtNew, lastOp, lastOpNc, lastFail, opLog, logging, txPrefix, outsideTx>>

\* the Transaction goes out of scope without commit
Drop ==
    /\ Open
    /\ tx' = [NoTx EXCEPT !.status = "dropped"]
    /\ UNCHANGED <<state, stateView, commitResult, stateAtNew, lastOp, lastOpNc,
                   lastFail, opLog, logging, txPrefix, outsideTx>>

\* Transaction::put_raw
PutRaw(key, value) ==
    /\ Open
    /\ tx' = [tx EXCEPT !.unwritten_changes = Insert(@, key, value)]
    /\ lastOp' = [lastOp EXCEPT ![key] = value]
    /\ Logged([op |-> "put_raw", key |-> key, value |-> value])
    /\ UNCHANGED <<state, stateView, commitResult, stateAtNew, lastOpNc, lastFail, txPrefix, outsideTx>>

\* Transaction::delete
Delete(key) ==
    /\ Open
    /\ tx' = [tx EXCEPT !.unwritten_changes = Insert(@, key, None)]
    /\ lastOp' = [lastOp EXCEPT ![key] = "delete"]
    /\ Logged([op |-> "delete", key |-> key, value |-> None])
    /\ UNCHANGED <<state, stateView, commitResult, stateAtNew, lastOpNc, lastFail, txPrefix, outsideTx>>

\* a delete that writes its tombstone into the base's buffer
DeleteNonconsensusOnBase(key) ==
    /\ Open
    /\ state' = [state EXCEPT !.nonconsensus_changes = Insert(@, key, None)]
    /\ lastOpNc' = [lastOpNc EXCEPT ![key] = "delete"]
    /\ UNCHANGED <<tx, stateView, commitResult, stateAtNew, lastOp, lastFail, opLog,
                   logging, txPrefix, outsideTx>>

\* Transaction::delete_nonconsensus
DeleteNonconsensus(key) ==
    /\ Open
    /\ tx' = [tx EXCEPT !.nonconsensus_changes = Insert(@, key, None)]
    /\ lastOpNc' = [lastOpNc EXCEPT ![key] = "delete"]
    /\ UNCHANGED <<state, stateView, commitResult, stateAtNew, lastOp, lastFail, opLog,
                   logging, txPrefix, outsideTx>>

\* a non-consensus put that lands in the consensus buffer
PutNonconsensusIntoConsensus(key, value) ==
    /\ Open
    /\ tx' = [tx EXCEPT !.unwritten_changes = Insert(@, key, value)]
    /\ lastOpNc' = [lastOpNc EXCEPT ![key] = value]
    /\ UNCHANGED <<state, stateView, commitResult, stateAtNew, lastOp, lastFail, opLog,
                   logging, txPrefix, outsideTx>>

\* Transaction::put_nonconsensus
PutNonconsensus(key, value) ==
    /\ Open
    /\ tx' = [tx EXCEPT !.nonconsensus_changes = Insert(@, key, value)]
    /\ lastOpNc' = [lastOpNc EXCEPT ![key] = value]
    /\ UNCHANGED <<state, stateView, commitResult, stateAtNew, lastOp, lastFail, opLog,
                   logging, txPrefix, outsideTx>>

TxNext ==
    \/ New
    \/ \E r \in Reasons : Fail(r)
    \/ Commit
    \/ Drop
    \/ \E k \in TxKeys, v \in Values : PutRaw(k, v)
    \/ \E k \in TxKeys : Delete(k)
    \/ \E k \in NcKeys : DeleteNonconsensus(k)
    \/ \E k \in NcKeys, v \in Values : PutNonconsensus(k, v)

InitTx == TxInit /\ SnapRest /\ ScanRest /\ LeafRest

SpecTx == InitTx /\ [][TxNext]_vars

----------------------------------------------------------------------------
(* Snapshot: a pinned read view of the physical store *)

\* Byte keys written to the column families of the physical store
SnapKeys == {<<1>>, <<2>>}

\* Column families a version's write touches
WrittenCfs == {"jmt", "nonconsensus"}

\* Highest version written to the physical store
MaxVersion == 3

\* Most Snapshot handles alive at once
MaxHandles == 2

\* the content of the store now
Tip == dbHistory[Len(dbHistory)]

\* RocksDbSnapshot: reads see the store as of the pinned sequence number
ViewAt(seq) == dbHistory[seq]

\* a read that goes to the live store instead of the pinned view
SnapshotGetRawLive(inner, key) == GetCf(Tip.jmt, key)

\* Snapshot::get_raw: a direct lookup of the key in the jmt column family
SnapshotGetRaw(inner, key) == GetCf(ViewAt(inner.snapshot).jmt, key)

\* Snapshot::get_nonconsensus
SnapshotGetNonconsensus(inner, key) ==
    GetCf(ViewAt(inner.snapshot).nonconsensus, key)

\* Snapshot::version
SnapshotVersion(inner) == inner.version

\* one put or delete on one column family
Written(store, cf, key, value) ==
    LET put(m) == IF value = None
                  THEN [k \in DOMAIN m \ {key} |-> m[k]]
                  ELSE Insert(m, key, value)
    IN  IF cf = "jmt" THEN [store EXCEPT !.jmt = put(@)]
        ELSE [store EXCEPT !.nonconsensus = put(@)]

\* another part of the system writes the next version into the physical store
WriteVersion(cf, key, value) ==
    /\ jmtVersion < MaxVersion
    /\ dbHistory' = Append(dbHistory, Written(Tip, cf, key, value))
    /\ jmtVersion' = jmtVersion + 1
    /\ UNCHANGED <<inners, handles, created, txVars, scanVars, leafVars>>

\* Snapshot::new(db, version): pins the store as it is now
SnapshotNew(version) ==
    /\ Len(handles) < MaxHandles
    /\ inners' = Append(inners, [snapshot |-> Len(dbHistory), version |-> version])
    /\ handles' = Append(handles, Len(inners) + 1)
    /\ created' = Append(created, [view |-> Tip, version |-> version,
                                   latest |-> jmtVersion])
    /\ UNCHANGED <<dbHistory, jmtVersion, txVars, scanVars, leafVars>>

\* Snapshot::clone: a new handle that shares the Inner
SnapshotClone(h) ==
    /\ Len(handles) < MaxHandles
    /\ handles' = Append(handles, handles[h])
    /\ UNCHANGED <<dbHistory, jmtVersion, inners, created, txVars, scanVars, leafVars>>

\* the transaction side is at rest
TxRest ==
    /\ state = [unwritten_changes |-> EmptyMap, nonconsensus_changes |-> EmptyMap]
    /\ stateView = EmptyStore
    /\ tx = NoTx
    /\ commitResult = NoResult
    /\ stateAtNew = state
    /\ lastOp = NoOps
    /\ lastOpNc = NoOpsNc
    /\ lastFail = "none"
    /\ opLog = <<>>
    /\ logging = FALSE
    /\ txPrefix = NoCall

InitSnap == SnapRest /\ TxRest /\ ScanRest /\ LeafRest

SnapNext ==
    \/ \E cf \in WrittenCfs, k \in SnapKeys, v \in OptValues : WriteVersion(cf, k, v)
    \/ \E v \in 0..jmtVersion : SnapshotNew(v)
    \/ \E h \in 1..Len(handles) : SnapshotClone(h)

SpecSnap == InitSnap /\ [][SnapNext]_vars

----------------------------------------------------------------------------
(* Snapshot::prefix_raw: a background producer streams into a bounded channel *)

\* mpsc::channel(10)
ChannelCapacity == 10

\* Number of keys under prefix <<3>> in the widest store scanned
WideKeys == 12

\* byte-wise lexicographic order, the order of RocksDB's default comparator
LexLess(a, b) ==
    \E i \in 1..(Len(a) + 1) :
        /\ \A j \in 1..(i - 1) : j <= Len(b) /\ a[j] = b[j]
        /\ i <= Len(b)
        /\ (i = Len(a) + 1 \/ a[i] < b[i])

\* str::starts_with
StartsWith(key, prefix) ==
    /\ Len(prefix) <= Len(key)
    /\ SubSeq(key, 1, Len(prefix)) = prefix

\* std::str::from_utf8 succeeds; of the bytes used here only 255 is never valid
IsUtf8(key) == \A i \in 1..Len(key) : key[i] < 128

\* the exclusive upper bound of rocksdb::PrefixRange: drop trailing 0xFF bytes
\* and increment the last byte left; a prefix of 0xFF bytes only has no bound
RECURSIVE UpperBound(_)
UpperBound(prefix) ==
    IF Len(prefix) = 0 THEN [bounded |-> FALSE, key |-> <<>>]
    ELSE IF prefix[Len(prefix)] < 255
         THEN [bounded |-> TRUE,
               key |-> [prefix EXCEPT ![Len(prefix)] = @ + 1]]
         ELSE UpperBound(SubSeq(prefix, 1, Len(prefix) - 1))

\* a range with the lower bound only
InLowerBoundedRange(key, prefix) == key = prefix \/ LexLess(prefix, key)

\* set_iterate_range(PrefixRange(prefix)): the keys the iterator may return
InIterateRange(key, prefix) ==
    /\ key = prefix \/ LexLess(prefix, key)
    /\ UpperBound(prefix).bounded => LexLess(key, UpperBound(prefix).key)

\* the entries of jmt_keys the iterator has still to return
Remaining(view, prefix, p) ==
    {k \in DOMAIN view.jmt_keys :
        /\ InIterateRange(k, prefix)
        /\ p.seeked => LexLess(p.cursor, k)}

\* Iterator::next in IteratorMode::Start: the least remaining key
NextKey(view, prefix, p) ==
    CHOOSE k \in Remaining(view, prefix, p) :
        \A o \in Remaining(view, prefix, p) : o = k \/ LexLess(k, o)

\* the pinned view the running scan reads
ScanView == ViewAt(inners[scan.inner].snapshot)

SenderAlive == producer.pc \in {"iter", "send"}

\* Snapshot::prefix_raw(prefix): clones the Inner, creates the channel, spawns
\* the producer and returns the stream
PrefixRaw(h, prefix) ==
    /\ ~scan.started
    /\ scan' = [started |-> TRUE, prefix |-> prefix, inner |-> handles[h]]
    /\ producer' = [producer EXCEPT !.pc = "iter"]
    /\ channel' = <<>>
    /\ consumer' = [pc |-> "polling", received |-> <<>>]
    /\ UNCHANGED <<snapVars, txVars, leafVars>>

\* get_pinned_cf(jmt_cf, key_hash) for the hash the index stores for the key
Lookup(view, key) == GetCf(view.jmt, view.jmt_keys[key])

\* an index entry without a value passed over: the loop goes on to the next
OnMissingSkip(p, k) == [p EXCEPT !.seeked = TRUE, !.cursor = k]

\* .expect("keys in jmt_keys should have a corresponding value in jmt"): the
\* closure panics on an index entry whose hash has no value
OnMissing(p, k) == [p EXCEPT !.pc = "panicked", !.error = "expect"]

\* one turn of the producer's loop up to blocking_send: the iterator's next
\* entry, the lookup of its value, the decoding of its key
ProducerNext(fault) ==
    /\ producer.pc = "iter"
    /\ LET rest == Remaining(ScanView, scan.prefix, producer)
           k == NextKey(ScanView, scan.prefix, producer)
       IN  IF rest = {}
           THEN /\ fault = "none"
                /\ producer' = [producer EXCEPT !.pc = "returned_ok"]
           ELSE IF fault = "iterator"
           THEN producer' = [producer EXCEPT !.pc = "returned_err",
                                             !.error = "iterator"]
           ELSE IF fault = "get_pinned_cf"
           THEN producer' = [producer EXCEPT !.pc = "returned_err",
                                             !.error = "get_pinned_cf"]
           ELSE IF Lookup(ScanView, k) = None
           THEN producer' = OnMissing(producer, k)
           ELSE IF ~IsUtf8(k)
           THEN producer' = [producer EXCEPT !.pc = "returned_err",
                                             !.error = "from_utf8"]
           ELSE producer' = [producer EXCEPT
                                !.pc = "send", !.seeked = TRUE, !.cursor = k,
                                !.item = [ok |-> TRUE, key |-> k,
                                          value |-> Lookup(ScanView, k)]]
    /\ UNCHANGED <<scan, channel, consumer, snapVars, txVars, leafVars>>

\* a send into a channel without a capacity
ProducerSendUnbounded ==
    /\ producer.pc = "send"
    /\ IF consumer.pc = "dropped"
       THEN /\ producer' = [producer EXCEPT !.pc = "returned_err", !.error = "send",
                                            !.item = NoItem]
            /\ UNCHANGED channel
       ELSE /\ channel' = Append(channel, producer.item)
            /\ producer' = [producer EXCEPT !.pc = "iter", !.item = NoItem,
                                            !.sent = @ + 1,
                                            !.history = Append(@, producer.item)]
    /\ UNCHANGED <<scan, consumer, snapVars, txVars, leafVars>>

\* a send that does not notice that the receiver is gone
ProducerSendIgnoringClose ==
    /\ producer.pc = "send"
    /\ Len(channel) < ChannelCapacity
    /\ channel' = Append(channel, producer.item)
    /\ producer' = [producer EXCEPT !.pc = "iter", !.item = NoItem, !.sent = @ + 1,
                                    !.history = Append(@, producer.item)]
    /\ UNCHANGED <<scan, consumer, snapVars, txVars, leafVars>>

\* tx.blocking_send(Ok(..))?: waits while the channel is full, fails once the
\* receiver is gone
ProducerSend ==
    /\ producer.pc = "send"
    /\ IF consumer.pc = "dropped"
       THEN /\ producer' = [producer EXCEPT !.pc = "returned_err", !.error = "send",
                                            !.item = NoItem]
            /\ UNCHANGED channel
       ELSE /\ Len(channel) < ChannelCapacity
            /\ channel' = Append(channel, producer.item)
            /\ producer' = [producer EXCEPT !.pc = "iter", !.item = NoItem,
                                            !.sent = @ + 1,
                                            !.history = Append(@, producer.item)]
    /\ UNCHANGED <<scan, consumer, snapVars, txVars, leafVars>>

\* the consumer polls the ReceiverStream and gets the oldest element
ConsumerRecv ==
    /\ consumer.pc = "polling"
    /\ channel # <<>>
    /\ consumer' = [consumer EXCEPT !.received = Append(@, Head(channel))]
    /\ channel' = Tail(channel)
    /\ UNCHANGED <<scan, producer, snapVars, txVars, leafVars>>

\* an end of stream reported as soon as the sender is gone
ConsumerEndEarly ==
    /\ consumer.pc = "polling"
    /\ ~SenderAlive
    /\ consumer' = [consumer EXCEPT !.pc = "ended"]
    /\ UNCHANGED <<scan, producer, channel, snapVars, txVars, leafVars>>

\* the consumer polls an empty channel whose sender was dropped: end of stream
ConsumerEnd ==
    /\ consumer.pc = "polling"
    /\ channel = <<>>
    /\ ~SenderAlive
    /\ consumer' = [consumer EXCEPT !.pc = "ended"]
    /\ UNCHANGED <<scan, producer, channel, snapVars, txVars, leafVars>>

\* the consumer drops the stream: the receiver closes and its buffer is freed
ConsumerDrop ==
    /\ consumer.pc = "polling"
    /\ consumer' = [consumer EXCEPT !.pc = "dropped"]
    /\ channel' = <<>>
    /\ UNCHANGED <<scan, producer, snapVars, txVars, leafVars>>

\* Keys of the key-preimage index; <<1, 255>> is not valid UTF-8
ScanKeys == {<<1>>, <<1, 1>>, <<1, 2>>, <<1, 255>>, <<2>>}

ScanPrefixes == {<<>>, <<1>>, <<1, 255>>, <<2>>, <<3>>}

\* the value a store holds for a key
ScanValue(key) == IF key \in {<<1>>, <<1, 2>>, <<2>>} THEN "x" ELSE "y"

\* a store with index entries for the keys of D whose values are in the jmt
\* column family under the key hashes, except for the keys of lost
StoreOf(D, lost) ==
    [jmt |-> [h \in {KeyHash(k) : k \in D \ lost} |->
                 ScanValue(CHOOSE k \in D : KeyHash(k) = h)],
     jmt_keys |-> [k \in D |-> KeyHash(k)],
     nonconsensus |-> EmptyMap]

\* Stores a scan runs over
ScanViews ==
    {StoreOf(D, {}) : D \in SUBSET ScanKeys}
    \cup {StoreOf(D, {l}) : D \in SUBSET ScanKeys, l \in ScanKeys}
    \cup {StoreOf({<<3, i>> : i \in 1..WideKeys} \cup {<<2>>}, {})}

\* a Snapshot of the latest version of some store exists
InitScan ==
    /\ dbHistory \in {<<v>> : v \in ScanViews}
    /\ jmtVersion = 1
    /\ inners = <<[snapshot |-> 1, version |-> 1]>>
    /\ handles = <<1>>
    /\ created = <<[view |-> dbHistory[1], version |-> 1, latest |-> 1]>>
    /\ ScanRest
    /\ LeafRest
    /\ TxRest

ScanFaults == {"none", "iterator", "get_pinned_cf"}

ScanNext ==
    \/ \E h \in 1..Len(handles), p \in ScanPrefixes : PrefixRaw(h, p)
    \/ \E f \in ScanFaults : ProducerNext(f)
    \/ ProducerSend
    \/ ConsumerRecv
    \/ ConsumerEnd
    \/ ConsumerDrop

SpecScan == InitScan /\ [][ScanNext]_vars

\* the spawn_blocking task runs on its own thread of the blocking pool: a
\* producer step that stays possible is eventually taken
SpecScanProducerFair ==
    /\ SpecScan
    /\ WF_vars(\E f \in ScanFaults : ProducerNext(f))
    /\ WF_vars(ProducerSend)

\* ... and the consumer keeps polling the stream it holds
SpecScanFair ==
    /\ SpecScanProducerFair
    /\ WF_vars(ConsumerRecv)
    /\ WF_vars(ConsumerEnd)

----------------------------------------------------------------------------
(* A single Transaction whose writes are recorded in program order *)

\* every partial map from keys K to values V
PartialMaps(K, V) == UNION {[D -> V] : D \in SUBSET K}

LogInit ==
    /\ state \in [unwritten_changes : PartialMaps(TxKeys, OptValues),
                  nonconsensus_changes : {EmptyMap}]
    /\ stateView \in StateViews
    /\ tx = [NoTx EXCEPT !.status = "open"]
    /\ commitResult = NoResult
    /\ stateAtNew = state
    /\ lastOp = NoOps
    /\ lastOpNc = NoOpsNc
    /\ lastFail = "none"
    /\ opLog = <<>>
    /\ logging = TRUE
    /\ txPrefix = NoCall
    /\ SnapRest
    /\ ScanRest
    /\ LeafRest

LogNext ==
    \/ \E k \in TxKeys, v \in Values : PutRaw(k, v)
    \/ \E k \in TxKeys : Delete(k)

SpecTxLog == LogInit /\ [][LogNext]_vars

\* position in the log of the last operation that named key (0: none did)
RECURSIVE LastIndexNaming(_, _)
LastIndexNaming(log, key) ==
    IF Len(log) = 0 THEN 0
    ELSE IF log[Len(log)].key = key THEN Len(log)
    ELSE LastIndexNaming(SubSeq(log, 1, Len(log) - 1), key)

----------------------------------------------------------------------------
(* Transaction::prefix_raw *)

\* Nested calls the stack has room for
MaxDepth == 3

TxPrefixes == {<<>>, <<1>>, <<2>>}

\* Snapshot::prefix_raw without faults, as a set of pairs
SnapshotPrefixPairs(view, prefix) ==
    {<<k, Lookup(view, k)>> :
        k \in {j \in DOMAIN view.jmt_keys : StartsWith(j, prefix)}}

\* prefix_raw_with_cache(sr, cache, prefix), given the pairs sr.prefix_raw yields:
\* a cached value overrides, a cached tombstone suppresses
PrefixRawWithCache(basePairs, cache, prefix) ==
    {pr \in basePairs : pr[1] \notin DOMAIN cache}
    \cup {<<k, cache[k]>> :
            k \in {j \in DOMAIN cache : StartsWith(j, prefix) /\ cache[j] # None}}

\* State::prefix_raw: the State's buffer over its snapshot
StatePrefixPairs(st, view, prefix) ==
    PrefixRawWithCache(SnapshotPrefixPairs(view, prefix), st.unwritten_changes, prefix)

\* Transaction::prefix_raw is called
TxPrefixRaw(prefix) ==
    /\ Open
    /\ txPrefix' = [NoCall EXCEPT !.pc = "prefix_raw", !.prefix = prefix, !.depth = 1]
    /\ UNCHANGED <<state, stateView, tx, commitResult, stateAtNew, lastOp, lastOpNc,
                   lastFail, opLog, logging, outsideTx>>

\* its body: prefix_raw_with_cache(self, &self.unwritten_changes, prefix), the
\* StateRead handed to the helper being the Transaction itself
TxPrefixRawBody ==
    /\ txPrefix.pc = "prefix_raw"
    /\ txPrefix' = [txPrefix EXCEPT !.pc = "with_cache"]
    /\ UNCHANGED <<state, stateView, tx, commitResult, stateAtNew, lastOp, lastOpNc,
                   lastFail, opLog, logging, outsideTx>>

\* the helper asks the StateRead it was handed for the prefix: that is
\* Transaction::prefix_raw again, one frame deeper
WithCacheReadsBase ==
    /\ txPrefix.pc = "with_cache"
    /\ txPrefix.depth < MaxDepth
    /\ txPrefix' = [txPrefix EXCEPT !.pc = "prefix_raw", !.depth = @ + 1]
    /\ UNCHANGED <<state, stateView, tx, commitResult, stateAtNew, lastOp, lastOpNc,
                   lastFail, opLog, logging, outsideTx>>

\* no room for another frame: the call ends without a stream
StackExhausted ==
    /\ txPrefix.pc = "with_cache"
    /\ txPrefix.depth = MaxDepth
    /\ txPrefix' = [txPrefix EXCEPT !.pc = "overflow"]
    /\ UNCHANGED <<state, stateView, tx, commitResult, stateAtNew, lastOp, lastOpNc,
                   lastFail, opLog, logging, outsideTx>>

\* the history of a Transaction holding the pending buffer m
OpsOf(m, K) ==
    [k \in K |-> IF k \notin DOMAIN m THEN "none"
                 ELSE IF m[k] = None THEN "delete" ELSE m[k]]

\* an open Transaction with some pending consensus writes over some base
InitTxPrefix ==
    /\ state \in [unwritten_changes : PartialMaps(TxKeys, OptValues),
                  nonconsensus_changes : {EmptyMap}]
    /\ stateView \in StateViews
    /\ tx \in {[NoTx EXCEPT !.status = "open", !.unwritten_changes = m] :
                  m \in PartialMaps(TxKeys, OptValues)}
    /\ commitResult = NoResult
    /\ stateAtNew = state
    /\ lastOp = OpsOf(tx.unwritten_changes, TxKeys)
    /\ lastOpNc = NoOpsNc
    /\ lastFail = "none"
    /\ opLog = <<>>
    /\ logging = FALSE
    /\ txPrefix = NoCall
    /\ SnapRest
    /\ ScanRest
    /\ LeafRest

TxPrefixNext ==
    \/ \E p \in TxPrefixes : TxPrefixRaw(p)
    \/ TxPrefixRawBody
    \/ WithCacheReadsBase
    \/ StackExhausted

SpecTxPrefix == InitTxPrefix /\ [][TxPrefixNext]_vars

----------------------------------------------------------------------------
(* Persisting the base State as a new version of the physical store *)

\* Versions persisted from the base State
MaxPersisted == 1

\* the staged non-consensus changes applied to their column family, by key
AppliedRaw(cf, changes) ==
    [k \in (DOMAIN cf \ {d \in DOMAIN changes : changes[d] = None})
           \cup {u \in DOMAIN changes : changes[u] # None} |->
        IF k \in DOMAIN changes THEN changes[k] ELSE cf[k]]

\* the staged consensus changes applied to the authenticated area, by key hash
AppliedHashed(cf, changes) ==
    [h \in (DOMAIN cf \ {KeyHash(d) : d \in {c \in DOMAIN changes : changes[c] = None}})
           \cup {KeyHash(u) : u \in {c \in DOMAIN changes : changes[c] # None}} |->
        IF \E c \in DOMAIN changes : KeyHash(c) = h
        THEN changes[CHOOSE c \in DOMAIN changes : KeyHash(c) = h]
        ELSE cf[h]]

\* the staged consensus changes applied to the key-preimage index
AppliedIndex(cf, changes) ==
    [k \in (DOMAIN cf \ {d \in DOMAIN changes : changes[d] = None})
           \cup {u \in DOMAIN changes : changes[u] # None} |-> KeyHash(k)]

\* the durable flush: the base State's buffers become the next version, in the
\* persisted layout (key hash -> value, key -> key hash, raw key -> raw value)
Persist ==
    /\ tx.status # "open"
    /\ jmtVersion < MaxPersisted
    /\ dbHistory' = Append(dbHistory,
           [jmt |-> AppliedHashed(Tip.jmt, state.unwritten_changes),
            jmt_keys |-> AppliedIndex(Tip.jmt_keys, state.unwritten_changes),
            nonconsensus |-> AppliedRaw(Tip.nonconsensus, state.nonconsensus_changes)])
    /\ jmtVersion' = jmtVersion + 1
    /\ state' = [unwritten_changes |-> EmptyMap, nonconsensus_changes |-> EmptyMap]
    /\ stateView' = dbHistory'[Len(dbHistory')]
    /\ UNCHANGED <<tx, commitResult, stateAtNew, lastOp, lastOpNc, lastFail, opLog,
                   logging, txPrefix, inners, handles, created, scanVars, leafVars>>

\* a fresh store, no Transaction, no Snapshot
InitPersist ==
    /\ TxRest
    /\ SnapRest
    /\ ScanRest
    /\ LeafRest

PersistNext ==
    \/ New
    \/ \E k \in TxKeys, v \in Values : PutRaw(k, v)
    \/ \E k \in TxKeys : Delete(k)
    \/ Commit
    \/ Persist
    \/ SnapshotNew(jmtVersion)

SpecPersist == InitPersist /\ [][PersistNext]_vars

----------------------------------------------------------------------------
(* The tree reader: get_rightmost_leaf on a pinned view *)

\* Encoded node keys in the jmt column family: a version, the number of
\* nibbles, the nibble path. <<2, 1>> lacks its path byte, <<3>> is cut short
LeafKeys == {<<1, 0>>, <<1, 1, 16>>, <<2, 1>>, <<3>>}

\* Encoded nodes: Null, an internal node, a leaf, an unknown tag
NodeBytes == {<<0>>, <<1, 5>>, <<2, 7>>, <<9>>}

\* Highest version written in a run of the tree reader
MaxNodeVersion == 2

\* NodeKey::decode: fails unless the path has a byte for every two nibbles
NodeKeyDecode(bytes) ==
    IF Len(bytes) >= 2 /\ Len(bytes) - 2 = (bytes[2] + 1) \div 2
    THEN [ok |-> TRUE, version |-> bytes[1], nibbles |-> bytes[2],
          path |-> SubSeq(bytes, 3, Len(bytes))]
    ELSE NoNodeKey

\* Node::decode: the first byte is the tag of Null, Internal or Leaf
NodeDecode(bytes) ==
    IF bytes = <<0>> THEN [ok |-> TRUE, kind |-> "null", payload |-> 0]
    ELSE IF Len(bytes) = 2 /\ bytes[1] = 1
    THEN [ok |-> TRUE, kind |-> "internal", payload |-> bytes[2]]
    ELSE IF Len(bytes) = 2 /\ bytes[1] = 2
    THEN [ok |-> TRUE, kind |-> "leaf", payload |-> bytes[2]]
    ELSE NoNode

\* the iterator's position: not valid, or at an entry
NoEntry == [valid |-> FALSE, key |-> <<>>, value |-> <<>>]

\* an iterator placed on the first entry
SeekToFirst(cf) ==
    IF DOMAIN cf = {} THEN NoEntry
    ELSE LET k == CHOOSE k \in DOMAIN cf :
                      \A o \in DOMAIN cf : o = k \/ LexLess(k, o)
         IN  [valid |-> TRUE, key |-> k, value |-> cf[k]]

\* raw_iterator_cf(jmt_cf) and seek_to_last: the entry with the greatest key
SeekToLast(cf) ==
    IF DOMAIN cf = {} THEN NoEntry
    ELSE LET k == CHOOSE k \in DOMAIN cf :
                      \A o \in DOMAIN cf : o = k \/ LexLess(o, k)
         IN  [valid |-> TRUE, key |-> k, value |-> cf[k]]

\* TreeReader::get_rightmost_leaf: what it returns on an Inner
RightmostLeaf(inner) ==
    LET iter == SeekToLast(ViewAt(inner.snapshot).jmt)
        node_key == NodeKeyDecode(iter.key)
        node == NodeDecode(iter.value)
        none == [ok |-> TRUE, some |-> FALSE, key |-> NoNodeKey, node |-> NoNode]
        err == [none EXCEPT !.ok = FALSE]
    IN  IF ~iter.valid THEN none
        ELSE IF ~node_key.ok THEN err
        ELSE IF ~node.ok THEN err
        ELSE IF node.kind = "leaf"
        THEN [ok |-> TRUE, some |-> TRUE, key |-> node_key, node |-> node]
        ELSE none

\* a call of get_rightmost_leaf on a Snapshot handle
GetRightmostLeaf(h) ==
    /\ LET r == RightmostLeaf(inners[handles[h]])
       IN  leaf' = [called |-> TRUE, inner |-> handles[h], ok |-> r.ok,
                    some |-> r.some, key |-> r.key, node |-> r.node]
    /\ UNCHANGED <<snapVars, txVars, scanVars>>

\* the tree writer puts a node into the physical store
PutNode(k, bytes) ==
    /\ jmtVersion < MaxNodeVersion
    /\ dbHistory' = Append(dbHistory, [Tip EXCEPT !.jmt = Insert(@, k, bytes)])
    /\ jmtVersion' = jmtVersion + 1
    /\ UNCHANGED <<inners, handles, created, txVars, scanVars, leafVars>>

\* the tree writer removes a node from the physical store
DeleteNode(k) ==
    /\ jmtVersion < MaxNodeVersion
    /\ k \in DOMAIN Tip.jmt
    /\ dbHistory' = Append(dbHistory,
           [Tip EXCEPT !.jmt = [o \in DOMAIN @ \ {k} |-> @[o]]])
    /\ jmtVersion' = jmtVersion + 1
    /\ UNCHANGED <<inners, handles, created, txVars, scanVars, leafVars>>

\* a Snapshot of a store whose jmt column family holds some nodes
InitLeaf ==
    /\ dbHistory \in {<<[jmt |-> m, jmt_keys |-> EmptyMap, nonconsensus |-> EmptyMap]>> :
                         m \in PartialMaps(LeafKeys, NodeBytes)}
    /\ jmtVersion = 1
    /\ inners = <<[snapshot |-> 1, version |-> 1]>>
    /\ handles = <<1>>
    /\ created = <<[view |-> dbHistory[1], version |-> 1, latest |-> 1]>>
    /\ ScanRest
    /\ LeafRest
    /\ TxRest

LeafNext ==
    \/ \E h \in 1..Len(handles) : GetRightmostLeaf(h)
    \/ \E k \in LeafKeys, b \in NodeBytes : PutNode(k, b)
    \/ \E k \in LeafKeys : DeleteNode(k)

SpecLeaf == InitLeaf /\ [][LeafNext]_vars

----------------------------------------------------------------------------
(* Properties of the Transaction *)

BaseHolds(key) == StateGetRaw(state, stateView, key)

\* C1: read-your-own-writes. In an open Transaction whose last write to key k
\* was put_raw(k, v), get_raw(k) returns v, whatever the base holds for k.
C1_ReadYourOwnPut ==
    tx.status = "open" =>
        \A k \in TxKeys :
            lastOp[k] \in Values => TxGetRaw(tx, state, stateView, k) = lastOp[k]

\* C1 witness: a put is pending for a key for which the base has staged a
\* different value.
C1_Witness ==
    /\ tx.status = "open"
    /\ \E k \in TxKeys : lastOp[k] \in Values /\ BaseHolds(k) \in Values \ {lastOp[k]}
                         /\ k \in DOMAIN state.unwritten_changes

\* C2: in an open Transaction whose last write to k was a delete, get_raw(k)
\* returns absent even when the base holds a value; the same for the
\* non-consensus keyspace.
C2_DeleteReadsAbsent ==
    tx.status = "open" =>
        /\ \A k \in TxKeys :
               lastOp[k] = "delete" => TxGetRaw(tx, state, stateView, k) = None
        /\ \A k \in NcKeys :
               lastOpNc[k] = "delete" =>
                   TxGetNonconsensus(tx, state, stateView, k) = None

\* C2 witness: tombstones are pending over base values in both keyspaces.
C2_Witness ==
    /\ tx.status = "open"
    /\ \E k \in TxKeys : lastOp[k] = "delete" /\ BaseHolds(k) \in Values
    /\ \E k \in NcKeys : /\ lastOpNc[k] = "delete"
                         /\ StateGetNonconsensus(state, stateView, k) \in Values

\* C3: last write wins. After any recorded sequence of put_raw and delete
\* calls, get_raw(k) is the value of the last call that named k (absent for a
\* delete), and the base's get_raw(k) when no call named k.
C3_LastWriteWins ==
    (logging /\ tx.status = "open") =>
        \A k \in TxKeys :
            LET i == LastIndexNaming(opLog, k)
                got == TxGetRaw(tx, state, stateView, k)
            IN  /\ i = 0 => got = BaseHolds(k)
                /\ (i > 0 /\ opLog[i].op = "put_raw") => got = opLog[i].value
                /\ (i > 0 /\ opLog[i].op = "delete") => got = None

\* C3 witness: put, put of another value, then delete of one key, while
\* another key that the base holds was never named.
C3_Witness ==
    /\ logging /\ tx.status = "open" /\ Len(opLog) = 3
    /\ opLog[1].op = "put_raw" /\ opLog[2].op = "put_raw" /\ opLog[3].op = "delete"
    /\ opLog[1].key = opLog[2].key /\ opLog[2].key = opLog[3].key
    /\ opLog[1].value # opLog[2].value
    /\ \E k \in TxKeys : k # opLog[1].key /\ BaseHolds(k) \in Values

\* buffer after is buffer before, overridden key by key by the pending entries
Overridden(before, pending, after, K) ==
    \A k \in K :
        IF k \in DOMAIN pending
        THEN k \in DOMAIN after /\ after[k] = pending[k]
        ELSE /\ (k \in DOMAIN after) = (k \in DOMAIN before)
             /\ k \in DOMAIN before => after[k] = before[k]

\* C4: commit merge. A successful commit leaves each buffer of the base as it
\* was, overridden key by key by the Transaction's pending entries, and the
\* base's buffers change in no other step.
C4_CommitMerges ==
    [][ /\ (tx.status = "open" /\ tx'.status = "committed") =>
              /\ Overridden(state.unwritten_changes, tx.unwritten_changes,
                            state'.unwritten_changes, TxKeys)
              /\ Overridden(state.nonconsensus_changes, tx.nonconsensus_changes,
                            state'.nonconsensus_changes, NcKeys)
              /\ DOMAIN state'.unwritten_changes \subseteq TxKeys
              /\ DOMAIN state'.nonconsensus_changes \subseteq NcKeys
        /\ state' # state => (tx.status = "open" /\ tx'.status = "committed")
      ]_vars

\* C4 witness: a commit succeeded that replaced a value the base had staged by
\* a tombstone, and left another staged entry of the base alone.
C4_Witness ==
    /\ tx.status = "committed" /\ commitResult.ok
    /\ \E k \in DOMAIN stateAtNew.unwritten_changes :
           /\ stateAtNew.unwritten_changes[k] \in Values
           /\ state.unwritten_changes[k] = None
    /\ \E k \in DOMAIN stateAtNew.nonconsensus_changes :
           /\ lastOpNc[k] = "none"
           /\ state.nonconsensus_changes[k] = stateAtNew.nonconsensus_changes[k]
    /\ \E k \in NcKeys : lastOpNc[k] \in Values

\* C5: staging is invisible to the base. While a Transaction is open, and
\* after it was dropped, both buffers of the base are what they were at
\* Transaction::new.
C5_StagingInvisible ==
    tx.status \in {"open", "dropped"} => state = stateAtNew

\* C5 witness: a Transaction that staged writes in both keyspaces and was
\* marked failed has been dropped.
C5_Witness ==
    /\ tx.status = "dropped"
    /\ lastFail # "none"
    /\ \E k \in TxKeys : lastOp[k] \in Values
    /\ \E k \in TxKeys : lastOp[k] = "delete"
    /\ \E k \in NcKeys : lastOpNc[k] \in Values
    /\ \E k \in NcKeys : lastOpNc[k] = "delete"
    /\ state.unwritten_changes # EmptyMap

\* C6: commit refusal. A commit of a Transaction on which fail was called
\* returns an error carrying the recorded reason and leaves both buffers of
\* the base unchanged.
C6_CommitRefused ==
    /\ (tx.status \in {"refused", "committed"} /\ lastFail # "none") =>
           /\ tx.status = "refused"
           /\ ~commitResult.ok
           /\ commitResult.context = lastFail
           /\ state = stateAtNew
    /\ tx.status = "refused" => lastFail # "none"

\* C6 witness: a Transaction with staged writes was refused with reason R2.
C6_Witness ==
    /\ tx.status = "refused"
    /\ commitResult.context = "R2"
    /\ \E k \in TxKeys : lastOp[k] \in Values
    /\ \E k \in NcKeys : lastOpNc[k] = "delete"

Ascending(items) ==
    \A i, j \in 1..Len(items) : i < j => LexLess(items[i].key, items[j].key)

\* C8: snapshot prefix correctness. When the producer met no fault and the
\* consumer read the stream to its end, the stream held exactly one pair for
\* each index entry whose key starts with the prefix, with the value stored
\* under the key's hash, none for another key, in strictly ascending order of
\* the keys.
C8_PrefixExact ==
    (consumer.pc = "ended" /\ producer.pc = "returned_ok") =>
        LET got == consumer.received
            matching == {k \in DOMAIN ScanView.jmt_keys : StartsWith(k, scan.prefix)}
        IN  /\ Len(got) = Cardinality(matching)
            /\ \A k \in matching :
                   \E i \in 1..Len(got) :
                       got[i] = [ok |-> TRUE, key |-> k,
                                 value |-> ScanView.jmt[ScanView.jmt_keys[k]]]
            /\ \A i \in 1..Len(got) : got[i].ok /\ got[i].key \in matching
            /\ Ascending(got)

\* C8 witness: a scan of prefix <<1>> ended after three pairs with two
\* different values, over a store that also holds a key outside the prefix.
C8_Witness ==
    /\ consumer.pc = "ended" /\ producer.pc = "returned_ok"
    /\ scan.prefix = <<1>>
    /\ Len(consumer.received) = 3
    /\ consumer.received[1].value # consumer.received[2].value
    /\ <<2>> \in DOMAIN ScanView.jmt_keys

\* C9: Transaction.prefix_raw(p) returns the pending values merged over the
\* base's prefix_raw(p): a pair (k, v) for a key starting with p exactly when
\* v is pending for k, or nothing is pending for k and the base yields (k, v);
\* each key once, in ascending order.
C9_TxPrefixMerged ==
    txPrefix.pc \notin {"idle", "prefix_raw", "with_cache"} =>
        /\ txPrefix.result.returned
        /\ {<<it.key, it.value>> :
               it \in {txPrefix.result.items[i] : i \in 1..Len(txPrefix.result.items)}}
             = PrefixRawWithCache(StatePrefixPairs(state, stateView, txPrefix.prefix),
                                  tx.unwritten_changes, txPrefix.prefix)
        /\ Ascending(txPrefix.result.items)

\* C10: a producer error is forwarded. When the producer returned an error
\* of the iterator, of the value lookup or of the key's decoding, a consumer
\* that reads the stream to its end has received the pairs sent before it
\* and then the error as the last element.
C10_ErrorForwarded ==
    (consumer.pc = "ended" /\ producer.pc = "returned_err") =>
        /\ Len(consumer.received) = producer.sent + 1
        /\ ~consumer.received[Len(consumer.received)].ok

\* the value the pinned view holds for a key: the value stored under the hash
\* that the key-preimage index records for it
Held(view, key) ==
    IF key \in DOMAIN view.jmt_keys THEN GetCf(view.jmt, view.jmt_keys[key]) ELSE None

\* C11: not-found is not an error. Through every Snapshot, get_raw(k) returns
\* the bytes stored for k when the pinned view has an entry for k (as after
\* put_raw(k, v) was committed and persisted), and absent when it has none.
C11_GetRawFindsEntries ==
    \A h \in 1..Len(handles) :
        \A k \in TxKeys :
            SnapshotGetRaw(inners[handles[h]], k)
                = Held(ViewAt(inners[handles[h]].snapshot), k)

\* C12: historical snapshots are addressed by version. A Snapshot constructed
\* with version v while the store already holds later versions returns from
\* get_raw(k) the value k held as of version v (version v is the content of
\* the store after its v-th write).
C12_HistoricalByVersion ==
    \A h \in 1..Len(handles) :
        LET inner == inners[handles[h]]
            born == created[handles[h]]
        IN  born.version < born.latest =>
                \A k \in SnapKeys :
                    SnapshotGetRaw(inner, k)
                        = GetCf(dbHistory[born.version + 1].jmt, k)

\* C13: reads through one Snapshot agree. Every pair (k, v) the consumer got
\* from prefix_raw(p) has get_raw(k) = v on the same Snapshot, and when the
\* scan ended without a fault every key starting with p for which get_raw
\* returns a value was yielded with that value.
C13_ReadsAgree ==
    scan.started =>
        LET got == consumer.received
            inner == inners[scan.inner]
        IN  /\ \A i \in 1..Len(got) :
                   got[i].ok => SnapshotGetRaw(inner, got[i].key) = got[i].value
            /\ (consumer.pc = "ended" /\ producer.pc = "returned_ok") =>
                   \A k \in DOMAIN ScanView.jmt \cup DOMAIN ScanView.jmt_keys :
                       (StartsWith(k, scan.prefix) /\ SnapshotGetRaw(inner, k) # None) =>
                           \E i \in 1..Len(got) :
                               got[i] = [ok |-> TRUE, key |-> k,
                                         value |-> SnapshotGetRaw(inner, k)]

\* the channel is full and this step takes nothing out of it
FullAndNotTaken == Len(channel) = ChannelCapacity /\ Len(channel') >= Len(channel)

\* C14 as stated: the channel never holds more than its capacity, and while it
\* is full the producer does nothing (no lookup, no send) until the consumer
\* takes an element.
C14_FullChannelStopsProducer ==
    [][ /\ Len(channel') <= ChannelCapacity
        /\ FullAndNotTaken => producer' = producer
      ]_vars

\* C14 amended: the channel never holds more than its capacity; a producer
\* waiting in blocking_send on a full channel does nothing until the consumer
\* takes an element; a producer at the top of its loop makes one more lookup
\* and then waits in blocking_send (or ends), without sending.
C14_FullChannelBlocksSend ==
    [][ /\ Len(channel') <= ChannelCapacity
        /\ (FullAndNotTaken /\ producer.pc = "send") => producer' = producer
        /\ (FullAndNotTaken /\ producer.pc = "iter") =>
               /\ channel' = channel
               /\ producer'.sent = producer.sent
               /\ producer' # producer => producer'.pc # "iter"
      ]_vars

\* C14 witness: the channel holds ten elements and the producer waits in
\* blocking_send with the eleventh, more keys still to come.
C14_Witness ==
    /\ Len(channel) = ChannelCapacity
    /\ producer.pc = "send"
    /\ consumer.pc = "polling"
    /\ Remaining(ScanView, scan.prefix, producer) # {}

\* C15: once the consumer has dropped the stream the producer eventually
\* terminates (it is not left waiting in blocking_send), nothing enters the
\* channel any more, and after its failed send the producer does nothing.
C15_DropStopsProducer ==
    /\ (consumer.pc = "dropped") ~> ~SenderAlive
    /\ [][consumer.pc = "dropped" =>
             channel' = <<>> /\ producer'.sent = producer.sent]_vars
    /\ [][producer.error = "send" => producer' = producer]_vars

\* C15 witness: the consumer dropped the stream after an element was sent and
\* with keys still to come, and the producer ended on its failed send.
C15_Witness ==
    /\ consumer.pc = "dropped"
    /\ producer.pc = "returned_err"
    /\ producer.error = "send"
    /\ producer.sent >= 1
    /\ Remaining(ScanView, scan.prefix, producer) # {}

\* C16: a started scan eventually has its producer finished and its consumer
\* at end-of-stream (unless the consumer dropped the stream); what the
\* consumer received followed by what is in the channel is what the producer
\* sent, in order, and at end-of-stream the consumer has received all of it.
C16_StreamTerminates ==
    /\ scan.started ~> ~SenderAlive
    /\ scan.started ~> (consumer.pc \in {"ended", "dropped"})
    /\ [](consumer.pc = "polling" =>
             consumer.received \o channel = producer.history)
    /\ [](consumer.pc = "ended" =>
             ~SenderAlive /\ channel = <<>>
             /\ consumer.received = producer.history)

\* C16 witness: a scan over several matching keys ran to its end and the
\* consumer saw end-of-stream after receiving each element.
C16_Witness ==
    /\ consumer.pc = "ended"
    /\ producer.pc = "returned_ok"
    /\ Len(consumer.received) >= 3
    /\ consumer.received = producer.history

\* the iterator's next entry is an index entry whose hash has no value
MissingAhead ==
    /\ Remaining(ScanView, scan.prefix, producer) # {}
    /\ Lookup(ScanView, NextKey(ScanView, scan.prefix, producer)) = None

\* the producer is about to handle such an entry
AtMissing == producer.pc = "iter" /\ MissingAhead

\* C17: a producer that reaches an index entry without a value panics (unless
\* the iterator or the read itself fails first): it does not move past the
\* entry, sends nothing for it, never acts again, and no element the producer
\* ever sent is for a key without a value.
C17_MissingValuePanics ==
    /\ [][(AtMissing /\ producer' # producer) =>
              /\ \/ producer'.pc = "panicked" /\ producer'.error = "expect"
                 \/ /\ producer'.pc = "returned_err"
                    /\ producer'.error \in {"iterator", "get_pinned_cf"}
              /\ producer'.cursor = producer.cursor
              /\ producer'.seeked = producer.seeked
              /\ producer'.history = producer.history
              /\ channel' = channel
         ]_vars
    /\ [][producer.pc = "panicked" => producer' = producer]_vars
    /\ [](producer.pc = "panicked" => MissingAhead)
    /\ [](\A i \in 1..Len(producer.history) :
             /\ producer.history[i].ok
             /\ Lookup(ScanView, producer.history[i].key) # None)

\* C17 witness: the producer panicked on an entry without a value after it
\* had sent an element, with a further entry behind the one it stopped at.
C17_Witness ==
    /\ producer.pc = "panicked"
    /\ producer.sent >= 1
    /\ Cardinality(Remaining(ScanView, scan.prefix, producer)) >= 2

\* C18: get_rightmost_leaf on a pinned view returns the entry with the
\* greatest key of the jmt column family, decoded, exactly when the column
\* family is non-empty and that entry decodes to a leaf; it returns absent
\* when the column family is empty or the entry is an internal node, and an
\* error when the entry's key or value does not decode.
C18_RightmostLeaf ==
    leaf.called =>
        LET cf == created[leaf.inner].view.jmt
            last == CHOOSE k \in DOMAIN cf : \A o \in DOMAIN cf \ {k} : LexLess(o, k)
            keyOk == NodeKeyDecode(last).ok
            node == NodeDecode(cf[last])
        IN  IF DOMAIN cf = {} THEN leaf.ok /\ ~leaf.some
            ELSE /\ (leaf.ok /\ leaf.some) <=>
                        (keyOk /\ node.ok /\ node.kind = "leaf")
                 /\ leaf.some =>
                        leaf.key = NodeKeyDecode(last) /\ leaf.node = node
                 /\ (~keyOk \/ ~node.ok) => ~leaf.ok
                 /\ (keyOk /\ node.ok /\ node.kind = "internal") =>
                        leaf.ok /\ ~leaf.some

\* C18 witness: a leaf was returned from a pinned view with several entries
\* while the live store has since lost that entry.
C18_Witness ==
    /\ leaf.called /\ leaf.ok /\ leaf.some
    /\ Cardinality(DOMAIN created[leaf.inner].view.jmt) >= 2
    /\ SeekToLast(Tip.jmt) # SeekToLast(created[leaf.inner].view.jmt)

\* every key of either keyspace, as bytes
BothKeys == TxKeys \cup NcKeys

\* C19: a put_raw or delete leaves the pending non-consensus buffer, the base
\* and every get_nonconsensus result as they were; a put_nonconsensus or
\* delete_nonconsensus does the same for the consensus side; a successful
\* commit overrides each buffer of the base by the pending entries of the same
\* keyspace only. Keys are compared as bytes, so a key present in both
\* keyspaces is covered.
C19_KeyspacesDisjoint ==
    [][ /\ (tx.status = "open" /\ tx'.status = "open" /\ lastOp' # lastOp) =>
              /\ tx'.nonconsensus_changes = tx.nonconsensus_changes
              /\ state' = state
              /\ \A k \in BothKeys :
                     TxGetNonconsensus(tx', state', stateView', k)
                         = TxGetNonconsensus(tx, state, stateView, k)
        /\ (tx.status = "open" /\ tx'.status = "open" /\ lastOpNc' # lastOpNc) =>
              /\ tx'.unwritten_changes = tx.unwritten_changes
              /\ state' = state
              /\ \A k \in BothKeys :
                     TxGetRaw(tx', state', stateView', k)
                         = TxGetRaw(tx, state, stateView, k)
        /\ (tx.status = "open" /\ tx'.status = "committed") =>
              /\ Overridden(state.unwritten_changes, tx.unwritten_changes,
                            state'.unwritten_changes, BothKeys)
              /\ Overridden(state.nonconsensus_changes, tx.nonconsensus_changes,
                            state'.nonconsensus_changes, BothKeys)
      ]_vars

\* C19 witness: in an open Transaction the same bytes were put as a consensus
\* key and deleted as a non-consensus key, and the two reads differ.
C19_Witness ==
    /\ tx.status = "open"
    /\ \E k \in TxKeys \cap NcKeys :
           /\ lastOp[k] \in Values
           /\ lastOpNc[k] = "delete"
           /\ TxGetRaw(tx, state, stateView, k) = lastOp[k]
           /\ TxGetNonconsensus(tx, state, stateView, k) = None
           /\ StateGetNonconsensus(state, stateView, k) \in Values

\* what get_raw must return for a key after its last write
Expected(op) == IF op = "delete" THEN None ELSE op

\* C20: while a Transaction is open, once fail was called the flag stays set
\* and the recorded reason is that of the most recent fail call; a failed
\* Transaction ends only refused (an error carrying that reason, the base
\* untouched) or dropped; a write issued on a failed Transaction is read back
\* by get_raw; and an ended Transaction never changes again except by being
\* replaced by a new one.
C20_FailedSticky ==
    /\ [](tx.status = "open" =>
             /\ lastFail # "none" => tx.failed /\ tx.failure_reason = lastFail
             /\ tx.failed => lastFail # "none")
    /\ [][ /\ (tx.status = "open" /\ tx.failed /\ tx'.status = "open") =>
                 /\ tx'.failed
                 /\ \A k \in TxKeys :
                        lastOp'[k] # lastOp[k] =>
                            TxGetRaw(tx', state', stateView', k) = Expected(lastOp'[k])
           /\ (tx.status = "open" /\ tx.failed /\ tx'.status # "open") =>
                 /\ tx'.status \in {"refused", "dropped"}
                 /\ state' = state
                 /\ tx'.status = "refused" =>
                        ~commitResult'.ok /\ commitResult'.context = lastFail
           /\ (tx.status = "open" /\ tx'.status # "open") =>
                 tx'.status \in {"committed", "refused", "dropped"}
           /\ (tx.status \in {"committed", "refused", "dropped"} /\ tx' # tx) =>
                 tx' = [NoTx EXCEPT !.status = "open"]
           /\ (tx.status \in {"committed", "refused", "dropped"} /\ tx' = tx) =>
                 UNCHANGED <<state, commitResult, lastOp, lastOpNc, lastFail>>
         ]_vars

\* C20 witness: a failed Transaction is still open, its reason is the one of
\* the latest fail call, and it reads back a put and a delete over values the
\* base holds.
C20_Witness ==
    /\ tx.status = "open"
    /\ tx.failed
    /\ tx.failure_reason = "R2"
    /\ \E k \in TxKeys :
           /\ lastOp[k] \in Values
           /\ BaseHolds(k) \in Values \ {lastOp[k]}
           /\ TxGetRaw(tx, state, stateView, k) = lastOp[k]
    /\ \E k \in TxKeys : lastOp[k] = "delete" /\ BaseHolds(k) \in Values

====
